---- MODULE Spec2Model ----
(***************************************************************************)
(* Model of the payment provider MBWAYViaIfThenPay                         *)
(* (src/pretix_sibsgateway/payment.py).                                    *)
(*                                                                         *)
(* The provider is a plugin: the host application owns the stored payment  *)
(* (OrderPayment), the session and the settings, and the vendor library    *)
(* addressed as paypalrestsdk owns the gateway-side transaction.  The      *)
(* model keeps                                                             *)
(*   db      the stored payment row,                                       *)
(*   obj     the in-memory OrderPayment the host hands to a hook,          *)
(*   gw      the gateway-side transaction,                                 *)
(*   session the request session keys the provider reads and writes,       *)
(*   last    what the most recent operation did (its result, the gateway   *)
(*           calls it issued, the saves it made, what it rendered),        *)
(*   calls   the execute_payment invocations in progress in the            *)
(*           specification of concurrent requests.                         *)
(* Host and vendor calls that the file does not define (init_api, the      *)
(* paypalrestsdk objects, OrderPayment.fail/confirm/save) are modelled by  *)
(* their visible contract at the call site.  The file neither imports      *)
(* paypalrestsdk nor defines init_api, get_order_id and _create_payment:   *)
(* the model takes these names as bound by the deployment, so that the     *)
(* code behind them is exercised instead of stopping at the first lookup.  *)
(***************************************************************************)
EXTENDS Integers, Sequences, FiniteSets, TLC

VARIABLES settings, currency, session, db, obj, gw, referenced, logs_shredded, last,
          calls

vars == <<settings, currency, session, db, obj, gw, referenced, logs_shredded, last,
          calls>>

(***************************************************************************)
(* Bounds of the model.                                                    *)
(***************************************************************************)
\* local payment ids are enumerated with a high part 0 .. MaxHigh above 10^15
MaxHigh == 1
\* amounts, in cents, range over 0 .. MaxAmount
MaxAmount == 1

(***************************************************************************)
(* Numbers of the size of 10^15 do not fit the checker's integers: a local *)
(* id is a sequence of base-100000 limbs, most significant first, without  *)
(* leading zero limbs (zero is <<0>>).  10^15 = 100000^3 is three limbs.   *)
(***************************************************************************)
LimbBase == 100000

RECURSIVE Normalize(_)
Normalize(s) ==
    IF Len(s) > 1 /\ Head(s) = 0 THEN Normalize(Tail(s)) ELSE s

RECURSIVE PadTo(_, _)
PadTo(s, k) == IF Len(s) >= k THEN s ELSE PadTo(<<0>> \o s, k)

LowLimbs(s, k) == SubSeq(PadTo(s, k), Len(PadTo(s, k)) - k + 1, Len(PadTo(s, k)))

LowParts == { <<0, 0, 0>>, <<0, 0, 7>>, <<LimbBase - 1, LimbBase - 1, LimbBase - 1>> }

\* the host's primary keys are positive
LocalIds == { Normalize(<<h>> \o l) : h \in 0 .. MaxHigh, l \in LowParts } \ { <<0>> }

Amounts == 0 .. MaxAmount

(***************************************************************************)
(* Value spaces.                                                           *)
(***************************************************************************)
SUPPORTED_CURRENCIES == { "EUR" }

Currencies == { "EUR", "USD" }

PAYMENT_STATE_CREATED == "created"
PAYMENT_STATE_PENDING == "pending"
PAYMENT_STATE_CONFIRMED == "confirmed"
PAYMENT_STATE_FAILED == "failed"

PaymentStates ==
    { PAYMENT_STATE_CREATED, PAYMENT_STATE_PENDING,
      PAYMENT_STATE_CONFIRMED, PAYMENT_STATE_FAILED }

GatewayStates == { "created", "pending", "approved", "failed" }

SaleStates == { "none", "completed", "pending" }

\* OrderPayment.info: empty, or the JSON dump of a gateway transaction
NoInfo == [present |-> FALSE, state |-> "none", sale |-> "none", shredded |-> FALSE]

\* json.dumps(payment.to_dict())
to_dict(pp) == [present |-> TRUE, state |-> pp.state, sale |-> pp.sale, shredded |-> FALSE]

\* what the gateway answers to payment.execute(): the HTTP status and, on
\* success, the state the transaction and its sale are left in (the code
\* reads the two independently, so every pair is an answer)
GatewayAnswers ==
    [status : {200}, state : {"approved", "pending", "failed"}, sale : SaleStates]
    \cup [status : {400, 500}, state : {"created"}, sale : {"none"}]

\* str() of a Decimal with two places, as <<units, fraction>>
str_decimal(cents) == <<cents \div 100, cents % 100>>

\* f'{value: .2f}': a blank in place of the plus sign, two fraction digits
format_price(value) ==
    IF value < 0
    THEN <<"-", (0 - value) \div 100, (0 - value) % 100>>
    ELSE <<" ", value \div 100, value % 100>>

NoView ==
    [keys |-> {}, id_order |-> <<0>>, amount |-> <<" ", 0, 0>>,
     description |-> "", language |-> "", status |-> ""]

Last(op, arg, result, net, saves, http, msg, view) ==
    [op |-> op, arg |-> arg, result |-> result, net |-> net, saves |-> saves,
     http |-> http, msg |-> msg, view |-> view,
     refunds |-> 0, pre |-> db.state,
     found |-> FALSE, inner |-> FALSE, execs |-> 0, confirms |-> 0,
     gw_pre |-> gw.state, sale_pre |-> gw.sale]

\* the provider's settings: the credentials may be unset; the PayPal Connect
\* user id is unset or on file
SettingsValues ==
    { [gateway_key |-> "gk", mb_way_key |-> "mk", description |-> "ticket",
       connect_user |-> "on-file"],
      [gateway_key |-> "", mb_way_key |-> "mk", description |-> "",
       connect_user |-> ""] }

\* the session keys the return view leaves behind: both, or one missing
SessionValues ==
    { [payment_paypal_id |-> "PAY-1", payment_paypal_payer |-> "payer",
       payment_paypal_payment |-> "unset"],
      [payment_paypal_id |-> "", payment_paypal_payer |-> "payer",
       payment_paypal_payment |-> "unset"],
      [payment_paypal_id |-> "PAY-1", payment_paypal_payer |-> "",
       payment_paypal_payment |-> "unset"] }

\* the two requests that run execute_payment for the same payment in the
\* specification of concurrent requests
Procs == { "request1", "request2" }

\* a request that has not called execute_payment yet
IdleCall(payment) ==
    [pc |-> "idle", pp |-> [state |-> "none", sale |-> "none"], po |-> payment,
     net |-> 0, execs |-> 0, result |-> "none"]

(***************************************************************************)
(* Initial state: the host has created the payment and the gateway-side    *)
(* transaction; settings, currency and session are whatever the host has.  *)
(***************************************************************************)
Init ==
    /\ settings \in SettingsValues
    /\ currency \in Currencies
    /\ session \in SessionValues
    /\ db \in [local_id : {Normalize(<<1, 0, 0, 7>>)}, amount : Amounts,
               state : {PAYMENT_STATE_CREATED}, info : {NoInfo}]
    /\ obj = db
    /\ gw \in [state : {"created"}, sale : {"none"},
               total : { str_decimal(db.amount), str_decimal(db.amount + 1) },
               currency : { "EUR" }]
    /\ referenced = FALSE
    /\ logs_shredded = FALSE
    /\ calls = [p \in Procs |-> IdleCall(db)]
    /\ last = [op |-> "init", arg |-> "none", result |-> "None", net |-> 0, saves |-> 0,
               http |-> 0, msg |-> "none", view |-> NoView,
               refunds |-> 0, pre |-> db.state,
               found |-> FALSE, inner |-> FALSE, execs |-> 0, confirms |-> 0,
               gw_pre |-> gw.state, sale_pre |-> gw.sale]

(***************************************************************************)
(* _execute_payment(payment, request, payment_obj).                        *)
(* payment is the gateway-side transaction, payment_obj the in-memory      *)
(* OrderPayment, stored the payment row; answer is what the gateway        *)
(* answers to execute(), fault names an unguarded gateway call that raises *)
(* ConnectionError, conf is the outcome of OrderPayment.confirm().         *)
(* The value is the outcome: the objects afterwards, the result, the       *)
(* number of gateway calls and of writes of the payment row.               *)
(***************************************************************************)
Outcome(o, d, g, result, net, saves, http, msg) ==
    [obj |-> o, db |-> d, gw |-> g, result |-> result, net |-> net,
     saves |-> saves, http |-> http, msg |-> msg, execs |-> 0, confirms |-> 0]

\* the outcome of a call that ran payment.execute() execs times and
\* payment_obj.confirm() confirms times
Counted(outcome, execs, confirms) ==
    [outcome EXCEPT !.execs = execs, !.confirms = confirms]

\* OrderPayment.save(): every field of the object is written
save(o) == o

\* OrderPayment.save(update_fields=['info'])
save_info(o, d) == [d EXCEPT !.info = o.info]

\* OrderPayment.fail(info=...): the payment is marked failed and stored
fail(o, info) == [o EXCEPT !.state = PAYMENT_STATE_FAILED, !.info = info]

\* OrderPayment.confirm(): the payment is marked confirmed and stored
confirm(o) == [o EXCEPT !.state = PAYMENT_STATE_CONFIRMED]

\* _execute_payment failing the payment only on the gateway state failed
_execute_payment_fails_only_failed(payment, payment_obj, stored, answer, fault, conf) ==
    LET created == payment.state = "created"
        replaceRaises == created /\ fault = "replace"
        executed == created /\ ~replaceRaises
        pp == IF executed /\ answer.status = 200
              THEN [payment EXCEPT !.state = answer.state, !.sale = answer.sale]
              ELSE payment
        net == IF created THEN (IF replaceRaises THEN 1 ELSE 2) ELSE 0
        n == IF executed THEN 1 ELSE 0
        http == IF executed THEN answer.status ELSE 0
        msg == IF executed /\ answer.status = 500 THEN "error" ELSE "none"
        refreshed == stored
    IN  IF replaceRaises
        THEN Outcome(payment_obj, stored, payment, "ConnectionError", net, 0, 0, "none")
        ELSE IF pp.sale = "pending"
        THEN LET o == [payment_obj EXCEPT !.info = to_dict(pp),
                                          !.state = PAYMENT_STATE_PENDING]
             IN  Counted(Outcome(o, save(o), pp, "None", net, 1, http, "warning"), n, 0)
        ELSE IF pp.state = "pending"
        THEN LET o == [refreshed EXCEPT !.info = to_dict(pp),
                                        !.state = PAYMENT_STATE_PENDING]
             IN  Counted(Outcome(o, save(o), pp, "None", net, 1, http, "warning"), n, 0)
        ELSE IF pp.state = "failed"
        THEN LET o == fail(refreshed, to_dict(pp))
             IN  Counted(Outcome(o, o, pp, "PaymentException", net, 1, http, msg), n, 0)
        ELSE IF refreshed.state = PAYMENT_STATE_CONFIRMED
        THEN Counted(Outcome(refreshed, stored, pp, "None", net, 0, http, msg), n, 0)
        ELSE LET o == [refreshed EXCEPT !.info = to_dict(pp)]
                 d == save_info(o, stored)
             IN  CASE conf = "quota" ->
                        Counted(Outcome(o, d, pp, "PaymentException", net, 1, http, msg),
                                n, 1)
                   [] conf = "mail" ->
                        Counted(Outcome(confirm(o), confirm(d), pp, "None", net, 2, http,
                                        "warning"), n, 1)
                   [] OTHER ->
                        Counted(Outcome(confirm(o), confirm(d), pp, "None", net, 2, http,
                                        msg), n, 1)

\* _execute_payment without the test for an already confirmed payment
_execute_payment_no_confirmed_check(payment, payment_obj, stored, answer, fault, conf) ==
    LET created == payment.state = "created"
        replaceRaises == created /\ fault = "replace"
        executed == created /\ ~replaceRaises
        pp == IF executed /\ answer.status = 200
              THEN [payment EXCEPT !.state = answer.state, !.sale = answer.sale]
              ELSE payment
        net == IF created THEN (IF replaceRaises THEN 1 ELSE 2) ELSE 0
        n == IF executed THEN 1 ELSE 0
        http == IF executed THEN answer.status ELSE 0
        msg == IF executed /\ answer.status = 500 THEN "error" ELSE "none"
        refreshed == stored
    IN  IF replaceRaises
        THEN Outcome(payment_obj, stored, payment, "ConnectionError", net, 0, 0, "none")
        ELSE IF pp.sale = "pending"
        THEN LET o == [payment_obj EXCEPT !.info = to_dict(pp),
                                          !.state = PAYMENT_STATE_PENDING]
             IN  Counted(Outcome(o, save(o), pp, "None", net, 1, http, "warning"), n, 0)
        ELSE IF pp.state = "pending"
        THEN LET o == [refreshed EXCEPT !.info = to_dict(pp),
                                        !.state = PAYMENT_STATE_PENDING]
             IN  Counted(Outcome(o, save(o), pp, "None", net, 1, http, "warning"), n, 0)
        ELSE IF pp.state # "approved"
        THEN LET o == fail(refreshed, to_dict(pp))
             IN  Counted(Outcome(o, o, pp, "PaymentException", net, 1, http, msg), n, 0)
        ELSE IF FALSE
        THEN Counted(Outcome(refreshed, stored, pp, "None", net, 0, http, msg), n, 0)
        ELSE LET o == [refreshed EXCEPT !.info = to_dict(pp)]
                 d == save_info(o, stored)
             IN  CASE conf = "quota" ->
                        Counted(Outcome(o, d, pp, "PaymentException", net, 1, http, msg),
                                n, 1)
                   [] conf = "mail" ->
                        Counted(Outcome(confirm(o), confirm(d), pp, "None", net, 2, http,
                                        "warning"), n, 1)
                   [] OTHER ->
                        Counted(Outcome(confirm(o), confirm(d), pp, "None", net, 2, http,
                                        msg), n, 1)

\* _execute_payment executing whatever the state of the transaction
_execute_payment_always_executes(payment, payment_obj, stored, answer, fault, conf) ==
    LET created == TRUE
        replaceRaises == created /\ fault = "replace"
        executed == created /\ ~replaceRaises
        pp == IF executed /\ answer.status = 200
              THEN [payment EXCEPT !.state = answer.state, !.sale = answer.sale]
              ELSE payment
        net == IF created THEN (IF replaceRaises THEN 1 ELSE 2) ELSE 0
        n == IF executed THEN 1 ELSE 0
        http == IF executed THEN answer.status ELSE 0
        msg == IF executed /\ answer.status = 500 THEN "error" ELSE "none"
        refreshed == stored
    IN  IF replaceRaises
        THEN Outcome(payment_obj, stored, payment, "ConnectionError", net, 0, 0, "none")
        ELSE IF pp.sale = "pending"
        THEN LET o == [payment_obj EXCEPT !.info = to_dict(pp),
                                          !.state = PAYMENT_STATE_PENDING]
             IN  Counted(Outcome(o, save(o), pp, "None", net, 1, http, "warning"), n, 0)
        ELSE IF pp.state = "pending"
        THEN LET o == [refreshed EXCEPT !.info = to_dict(pp),
                                        !.state = PAYMENT_STATE_PENDING]
             IN  Counted(Outcome(o, save(o), pp, "None", net, 1, http, "warning"), n, 0)
        ELSE IF pp.state # "approved"
        THEN LET o == fail(refreshed, to_dict(pp))
             IN  Counted(Outcome(o, o, pp, "PaymentException", net, 1, http, msg), n, 0)
        ELSE IF refreshed.state = PAYMENT_STATE_CONFIRMED
        THEN Counted(Outcome(refreshed, stored, pp, "None", net, 0, http, msg), n, 0)
        ELSE LET o == [refreshed EXCEPT !.info = to_dict(pp)]
                 d == save_info(o, stored)
             IN  CASE conf = "quota" ->
                        Counted(Outcome(o, d, pp, "PaymentException", net, 1, http, msg),
                                n, 1)
                   [] conf = "mail" ->
                        Counted(Outcome(confirm(o), confirm(d), pp, "None", net, 2, http,
                                        "warning"), n, 1)
                   [] OTHER ->
                        Counted(Outcome(confirm(o), confirm(d), pp, "None", net, 2, http,
                                        msg), n, 1)

_execute_payment(payment, payment_obj, stored, answer, fault, conf) ==
    LET created == payment.state = "created"
        replaceRaises == created /\ fault = "replace"
        executed == created /\ ~replaceRaises
        pp == IF executed /\ answer.status = 200
              THEN [payment EXCEPT !.state = answer.state, !.sale = answer.sale]
              ELSE payment
        net == IF created THEN (IF replaceRaises THEN 1 ELSE 2) ELSE 0
        n == IF executed THEN 1 ELSE 0
        http == IF executed THEN answer.status ELSE 0
        msg == IF executed /\ answer.status = 500 THEN "error" ELSE "none"
        refreshed == stored
    IN  IF replaceRaises
        THEN Outcome(payment_obj, stored, payment, "ConnectionError", net, 0, 0, "none")
        ELSE IF pp.sale = "pending"
        THEN LET o == [payment_obj EXCEPT !.info = to_dict(pp),
                                          !.state = PAYMENT_STATE_PENDING]
             IN  Counted(Outcome(o, save(o), pp, "None", net, 1, http, "warning"), n, 0)
        ELSE IF pp.state = "pending"
        THEN LET o == [refreshed EXCEPT !.info = to_dict(pp),
                                        !.state = PAYMENT_STATE_PENDING]
             IN  Counted(Outcome(o, save(o), pp, "None", net, 1, http, "warning"), n, 0)
        ELSE IF pp.state # "approved"
        THEN LET o == fail(refreshed, to_dict(pp))
             IN  Counted(Outcome(o, o, pp, "PaymentException", net, 1, http, msg), n, 0)
        ELSE IF refreshed.state = PAYMENT_STATE_CONFIRMED
        THEN Counted(Outcome(refreshed, stored, pp, "None", net, 0, http, msg), n, 0)
        ELSE LET o == [refreshed EXCEPT !.info = to_dict(pp)]
                 d == save_info(o, stored)
             IN  CASE conf = "quota" ->
                        Counted(Outcome(o, d, pp, "PaymentException", net, 1, http, msg),
                                n, 1)
                   [] conf = "mail" ->
                        Counted(Outcome(confirm(o), confirm(d), pp, "None", net, 2, http,
                                        "warning"), n, 1)
                   [] OTHER ->
                        Counted(Outcome(confirm(o), confirm(d), pp, "None", net, 2, http,
                                        msg), n, 1)

(***************************************************************************)
(* execute_payment(request, payment)                                       *)
(***************************************************************************)
payment_is_valid_session(sess) ==
    sess.payment_paypal_id # "" /\ sess.payment_paypal_payer # ""

\* execute_payment comparing the total alone, not the currency
execute_payment_total_only(sess, payment_obj, stored, pp_payment, cur, answer, fault, conf) ==
    IF sess.payment_paypal_id = "" \/ sess.payment_paypal_payer = ""
    THEN Outcome(payment_obj, stored, pp_payment, "PaymentException", 0, 0, 0, "none")
            @@ [referenced |-> FALSE, inner |-> FALSE]
    ELSE IF fault = "find"
    THEN Outcome(payment_obj, stored, pp_payment, "ConnectionError", 1, 0, 0, "none")
            @@ [referenced |-> FALSE, inner |-> FALSE]
    ELSE IF pp_payment.total # str_decimal(payment_obj.amount)
    THEN Outcome(payment_obj, stored, pp_payment, "PaymentException", 1, 0, 0, "none")
            @@ [referenced |-> TRUE, inner |-> FALSE]
    ELSE LET r == _execute_payment(pp_payment, payment_obj, stored, answer, fault, conf)
         IN  [r EXCEPT !.net = r.net + 1] @@ [referenced |-> TRUE, inner |-> TRUE]

execute_payment(sess, payment_obj, stored, pp_payment, cur, answer, fault, conf) ==
    IF sess.payment_paypal_id = "" \/ sess.payment_paypal_payer = ""
    THEN Outcome(payment_obj, stored, pp_payment, "PaymentException", 0, 0, 0, "none")
            @@ [referenced |-> FALSE, inner |-> FALSE]
    ELSE IF fault = "find"
    THEN Outcome(payment_obj, stored, pp_payment, "ConnectionError", 1, 0, 0, "none")
            @@ [referenced |-> FALSE, inner |-> FALSE]
    ELSE IF pp_payment.total # str_decimal(payment_obj.amount)
            \/ pp_payment.currency # cur
    THEN Outcome(payment_obj, stored, pp_payment, "PaymentException", 1, 0, 0, "none")
            @@ [referenced |-> TRUE, inner |-> FALSE]
    ELSE LET r == _execute_payment(pp_payment, payment_obj, stored, answer, fault, conf)
         IN  [r EXCEPT !.net = r.net + 1] @@ [referenced |-> TRUE, inner |-> TRUE]

Faults == { "none", "find", "replace" }

ConfirmOutcomes == { "ok", "quota", "mail" }

\* What the environment does during one execute_payment: which unguarded
\* gateway call raises, what the gateway answers to execute(), how confirm()
\* ends.  An answer is read only when no call raised, and confirm() is
\* reached only when no sale is pending and the transaction is not left
\* pending or failed, so the other combinations are not enumerated.
Environments ==
    { e \in [answer : GatewayAnswers, fault : Faults, conf : ConfirmOutcomes] :
        /\ e.fault # "none" => (e.answer.status = 400 /\ e.conf = "ok")
        /\ (e.answer.sale = "pending" \/ e.answer.state \in {"pending", "failed"})
              => e.conf = "ok" }

ExecutePayment ==
    \E e \in Environments :
        LET r == execute_payment(session, obj, db, gw, currency,
                                 e.answer, e.fault, e.conf)
        IN  /\ obj' = r.obj
            /\ db' = r.db
            /\ gw' = r.gw
            /\ referenced' = (referenced \/ r.referenced)
            /\ last' = [Last("execute_payment", "none", r.result, r.net, r.saves,
                             r.http, r.msg, NoView)
                          EXCEPT !.found = r.referenced, !.inner = r.inner,
                                 !.execs = r.execs, !.confirms = r.confirms]
            /\ UNCHANGED <<calls, settings, currency, session, logs_shredded>>


(***************************************************************************)
(* Capability checks.                                                      *)
(***************************************************************************)
\* is_allowed without the currency test
is_allowed_any_currency(base_allowed, cur) == base_allowed

\* super().is_allowed(request, total) and self.event.currency in SUPPORTED_CURRENCIES
is_allowed(base_allowed, cur) == base_allowed /\ cur \in SUPPORTED_CURRENCIES

abort_pending_allowed == FALSE

\* the class overrides neither of the host's refund capabilities
refund_supported(payment) == FALSE

partial_refund_supported(payment) == FALSE

BoolStr(b) == IF b THEN "True" ELSE "False"

IsAllowed ==
    \E base \in BOOLEAN :
        /\ last' = Last("is_allowed", BoolStr(base), BoolStr(is_allowed(base, currency)),
                        0, 0, 0, "none", NoView)
        /\ UNCHANGED <<calls, settings, currency, session, db, obj, gw, referenced,
                       logs_shredded>>

RefundSupported ==
    \E partial \in BOOLEAN :
        /\ last' = Last(IF partial THEN "partial_refund_supported" ELSE "refund_supported",
                        "none",
                        BoolStr(IF partial THEN partial_refund_supported(obj)
                                           ELSE refund_supported(obj)),
                        0, 0, 0, "none", NoView)
        /\ UNCHANGED <<calls, settings, currency, session, db, obj, gw, referenced,
                       logs_shredded>>

(***************************************************************************)
(* The order id and the control views.                                     *)
(***************************************************************************)
\* local id modulo 10^15: the three low limbs
get_order_id(payment) == Normalize(LowLimbs(payment.local_id, 3))

\* request.headers.get('locale', 'en')
Locales == { "absent", "pt" }

language_of(locale) == IF locale = "absent" THEN "en" ELSE locale

\* payment_control_render with the state left out of the context
payment_control_render_no_status(locale, payment, conf) ==
    [view |-> [keys |-> {"id_order", "amount", "description", "language"},
               id_order |-> get_order_id(payment),
               amount |-> format_price(payment.amount),
               description |-> conf.description,
               language |-> language_of(locale),
               status |-> ""],
     refunds |-> 0]

\* the context handed to the template control.html
payment_control_render(locale, payment, conf) ==
    [view |-> [keys |-> {"id_order", "amount", "description", "language", "status"},
               id_order |-> get_order_id(payment),
               amount |-> format_price(payment.amount),
               description |-> conf.description,
               language |-> language_of(locale),
               status |-> payment.state],
     refunds |-> 0]

\* payment_control_render_short returning the local id itself
payment_control_render_short_raw_id(payment) ==
    [view |-> [NoView EXCEPT !.keys = {"id_order"},
                             !.id_order = payment.local_id],
     refunds |-> 0]

\* payment_control_render_short without its return: the refund block runs
payment_control_render_short_refunding(payment) ==
    [view |-> [NoView EXCEPT !.keys = {"id_order"},
                             !.id_order = get_order_id(payment)],
     refunds |-> 1]

\* the order id alone; the refund block after the return is never run
payment_control_render_short(payment) ==
    [view |-> [NoView EXCEPT !.keys = {"id_order"},
                             !.id_order = get_order_id(payment)],
     refunds |-> 0]

PaymentControlRender ==
    \E locale \in Locales :
        LET r == payment_control_render(locale, obj, settings)
        IN  /\ last' = [Last("payment_control_render", locale, "html", 0, 0, 0,
                             "none", r.view) EXCEPT !.refunds = r.refunds]
            /\ UNCHANGED <<calls, settings, currency, session, db, obj, gw, referenced,
                           logs_shredded>>

PaymentControlRenderShort ==
    LET r == payment_control_render_short(obj)
    IN  /\ last' = [Last("payment_control_render_short", "none", "str", 0, 0, 0,
                         "none", r.view) EXCEPT !.refunds = r.refunds]
        /\ UNCHANGED <<calls, settings, currency, session, db, obj, gw, referenced,
                       logs_shredded>>

(***************************************************************************)
(* Lifecycle hooks.                                                        *)
(***************************************************************************)
\* return super().checkout_prepare()
checkout_prepare == "base"

CheckoutPrepare ==
    /\ last' = Last("checkout_prepare", "none", checkout_prepare, 0, 0, 0, "none", NoView)
    /\ UNCHANGED <<calls, settings, currency, session, db, obj, gw, referenced, logs_shredded>>

\* payment_prepare(request, payment_obj): token is the outcome of the token
\* refresh, userinfo of the user lookup, create of self._create_payment
\* (after a failed token refresh nothing else is called)
PrepareEnvironments ==
    { e \in [token : {"ok", "bad_request"}, userinfo : {"ok", "unauthorized"},
             create : {"ok", "connection_error"}] :
        e.token = "bad_request" => (e.userinfo = "ok" /\ e.create = "ok") }

payment_prepare(conf, sess, token, userinfo, create) ==
    LET connect == conf.connect_user # ""
    IN  IF connect /\ token = "bad_request"
        THEN [settings |-> conf, session |-> sess, result |-> "None",
              net |-> 1, msg |-> "error"]
        ELSE LET conf1 == IF connect /\ userinfo = "ok"
                          THEN [conf EXCEPT !.connect_user = "userinfo"]
                          ELSE conf
                 net1 == IF connect THEN 2 ELSE 0
                 sess1 == [sess EXCEPT !.payment_paypal_payment = "pk"]
             IN  IF create = "connection_error"
                 THEN [settings |-> conf1, session |-> sess1, result |-> "None",
                       net |-> net1 + 1, msg |-> "error"]
                 ELSE [settings |-> conf1, session |-> sess1,
                       result |-> "_create_payment", net |-> net1 + 1, msg |-> "none"]

PaymentPrepare ==
    \E e \in PrepareEnvironments :
        LET r == payment_prepare(settings, session, e.token, e.userinfo, e.create)
        IN  /\ settings' = r.settings
            /\ session' = r.session
            /\ last' = Last("payment_prepare", "none", r.result, r.net, 0, 0, r.msg, NoView)
            /\ UNCHANGED <<calls, currency, db, obj, gw, referenced, logs_shredded>>

\* shred_payment_info(obj): the stored info is replaced by its redacted form
shredded_info(info) ==
    [present |-> TRUE, state |-> "none", sale |-> "none", shredded |-> TRUE]

shred_payment_info(o, d) ==
    IF o.info.present
    THEN LET o1 == [o EXCEPT !.info = shredded_info(o.info)]
         IN  [obj |-> o1, db |-> save_info(o1, d), saves |-> 1, logs |-> TRUE]
    ELSE [obj |-> o, db |-> d, saves |-> 0, logs |-> TRUE]

ShredPaymentInfo ==
    LET r == shred_payment_info(obj, db)
    IN  /\ obj' = r.obj
        /\ db' = r.db
        /\ logs_shredded' = r.logs
        /\ last' = Last("shred_payment_info", "none", "None", 0, r.saves, 0, "none", NoView)
        /\ UNCHANGED <<calls, settings, currency, session, gw, referenced>>

\* render_invoice_text(order, payment)
render_invoice_text(paid, payment) ==
    IF paid
    THEN IF payment.info.present
         THEN IF payment.info.sale # "none"
              THEN "received, payment id, sale id"
              ELSE "received, payment id"
         ELSE "base"
    ELSE "_invoice_text"

RenderInvoiceText ==
    \E paid \in BOOLEAN :
        /\ last' = Last("render_invoice_text", BoolStr(paid),
                        render_invoice_text(paid, obj), 0, 0, 0, "none", NoView)
        /\ UNCHANGED <<calls, settings, currency, session, db, obj, gw, referenced,
                       logs_shredded>>

(***************************************************************************)
(* The host: it loads the stored payment for a request, and the webhook    *)
(* (outside this file) settles a pending payment.                          *)
(***************************************************************************)
HostLoad ==
    /\ obj # db
    /\ obj' = db
    /\ last' = Last("load", "none", "None", 0, 0, 0, "none", NoView)
    /\ UNCHANGED <<calls, settings, currency, session, db, gw, referenced, logs_shredded>>

Webhook ==
    /\ db.state = PAYMENT_STATE_PENDING
    /\ \E s \in { PAYMENT_STATE_CONFIRMED, PAYMENT_STATE_FAILED } :
          /\ db' = [db EXCEPT !.state = s]
          /\ gw' = [gw EXCEPT !.state = IF s = PAYMENT_STATE_CONFIRMED
                                        THEN "approved" ELSE "failed",
                              !.sale = IF gw.sale = "pending" /\ s = PAYMENT_STATE_CONFIRMED
                                       THEN "completed" ELSE gw.sale]
    /\ last' = Last("webhook", "none", "None", 0, 0, 0, "none", NoView)
    /\ UNCHANGED <<calls, settings, currency, session, obj, referenced, logs_shredded>>


(***************************************************************************)
(* Concurrent requests.  Two requests run execute_payment for the same     *)
(* payment; a step is one exchange with the gateway, and the last step is  *)
(* the mapping of the transaction's state onto the payment (lines 222-261, *)
(* with its reads and writes of the payment row).  Each request works on   *)
(* its own copy pp of the transaction, as returned by Payment.find, and    *)
(* its own payment object po.                                              *)
(***************************************************************************)
Others == <<settings, currency, session, obj, logs_shredded, last>>

\* lines 164-177: the session check, Payment.find, the reference row and the
\* comparison of total and currency
CFind(p) ==
    /\ calls[p].pc = "idle"
    /\ IF ~payment_is_valid_session(session)
       THEN /\ calls' = [calls EXCEPT ![p].pc = "done",
                                      ![p].result = "PaymentException"]
            /\ UNCHANGED referenced
       ELSE \E raised \in BOOLEAN :
              IF raised
              THEN /\ calls' = [calls EXCEPT ![p].pc = "done", ![p].net = 1,
                                             ![p].result = "ConnectionError"]
                   /\ UNCHANGED referenced
              ELSE LET mismatch == gw.total # str_decimal(db.amount)
                                     \/ gw.currency # currency
                   IN  /\ referenced' = TRUE
                       /\ calls' = [calls EXCEPT ![p] =
                             [pc |-> IF mismatch THEN "done"
                                     ELSE IF gw.state = "created" THEN "replace"
                                     ELSE "map",
                              pp |-> [state |-> gw.state, sale |-> gw.sale],
                              po |-> db,
                              net |-> 1,
                              execs |-> 0,
                              result |-> IF mismatch THEN "PaymentException"
                                         ELSE "running"]]
    /\ UNCHANGED <<db, gw>>
    /\ UNCHANGED Others

\* lines 181-215: payment.replace
CReplace(p) ==
    /\ calls[p].pc = "replace"
    /\ \E raised \in BOOLEAN :
          calls' = [calls EXCEPT ![p].net = @ + 1,
                                 ![p].pc = IF raised THEN "done" ELSE "execute",
                                 ![p].result = IF raised THEN "ConnectionError" ELSE @]
    /\ UNCHANGED <<db, gw, referenced>>
    /\ UNCHANGED Others

\* the answers to an execute request for a transaction in the given state: a
\* transaction that is no longer created is not executed again
AnswersIn(state) ==
    IF state = "created" THEN GatewayAnswers
    ELSE { a \in GatewayAnswers : a.status # 200 }

\* CExecute held back while another request has sent its execute request
CExecuteOnce(p) ==
    /\ calls[p].pc = "execute"
    /\ \A q \in Procs \ {p} : calls[q].execs = 0
    /\ \E answer \in AnswersIn(gw.state) :
          /\ calls' = [calls EXCEPT
                ![p].net = @ + 1,
                ![p].execs = @ + 1,
                ![p].pc = "map",
                ![p].pp = IF answer.status = 200
                          THEN [state |-> answer.state, sale |-> answer.sale]
                          ELSE @]
          /\ gw' = IF answer.status = 200
                   THEN [gw EXCEPT !.state = answer.state, !.sale = answer.sale]
                   ELSE gw
    /\ UNCHANGED <<db, referenced>>
    /\ UNCHANGED Others

\* lines 216-220: payment.execute, a ConnectionError being swallowed
CExecute(p) ==
    /\ calls[p].pc = "execute"
    /\ \E answer \in AnswersIn(gw.state) :
          /\ calls' = [calls EXCEPT
                ![p].net = @ + 1,
                ![p].execs = @ + 1,
                ![p].pc = "map",
                ![p].pp = IF answer.status = 200
                          THEN [state |-> answer.state, sale |-> answer.sale]
                          ELSE @]
          /\ gw' = IF answer.status = 200
                   THEN [gw EXCEPT !.state = answer.state, !.sale = answer.sale]
                   ELSE gw
    /\ UNCHANGED <<db, referenced>>
    /\ UNCHANGED Others

\* an execute that the gateway refuses: it leaves the transaction as it is
RefusedAnswer == [status |-> 400, state |-> "created", sale |-> "none"]

\* lines 222-261: the mapping part of _execute_payment on the request's copy
\* of the transaction (for a copy still in state created the execute inside
\* _execute_payment is the refused one, which changes nothing)
CMap(p) ==
    /\ calls[p].pc = "map"
    /\ \E conf \in ConfirmOutcomes :
          LET r == _execute_payment([gw EXCEPT !.state = calls[p].pp.state,
                                               !.sale = calls[p].pp.sale],
                                    calls[p].po, db, RefusedAnswer, "none", conf)
          IN  /\ db' = r.db
              /\ calls' = [calls EXCEPT ![p].pc = "done", ![p].po = r.obj,
                                        ![p].result = r.result]
    /\ UNCHANGED <<gw, referenced>>
    /\ UNCHANGED Others

NextConcurrent ==
    \E p \in Procs :
        \/ CFind(p)
        \/ CReplace(p)
        \/ CExecute(p)
        \/ CMap(p)

SpecConcurrent == Init /\ [][NextConcurrent]_vars

Next ==
    \/ ExecutePayment
    \/ IsAllowed
    \/ RefundSupported
    \/ PaymentControlRender
    \/ PaymentControlRenderShort
    \/ CheckoutPrepare
    \/ PaymentPrepare
    \/ ShredPaymentInfo
    \/ RenderInvoiceText
    \/ HostLoad
    \/ Webhook

Spec == Init /\ [][Next]_vars

(***************************************************************************)
(* The specification for the order id: the local id ranges over LocalIds,  *)
(* the rest of the initial state is one ordinary checkout.                 *)
(***************************************************************************)
InitOrderIds ==
    /\ settings = [gateway_key |-> "gk", mb_way_key |-> "mk",
                   description |-> "ticket", connect_user |-> "on-file"]
    /\ currency = "EUR"
    /\ session = [payment_paypal_id |-> "PAY-1", payment_paypal_payer |-> "payer",
                  payment_paypal_payment |-> "unset"]
    /\ db \in [local_id : LocalIds, amount : {MaxAmount},
                state : {PAYMENT_STATE_CREATED}, info : {NoInfo}]
    /\ obj = db
    /\ gw = [state |-> "created", sale |-> "none",
             total |-> str_decimal(MaxAmount), currency |-> "EUR"]
    /\ referenced = FALSE
    /\ logs_shredded = FALSE
    /\ calls = [p \in Procs |-> IdleCall(db)]
    /\ last = [op |-> "init", arg |-> "none", result |-> "None", net |-> 0, saves |-> 0,
               http |-> 0, msg |-> "none", view |-> NoView,
               refunds |-> 0, pre |-> db.state,
               found |-> FALSE, inner |-> FALSE, execs |-> 0, confirms |-> 0,
               gw_pre |-> gw.state, sale_pre |-> gw.sale]

SpecOrderIds == InitOrderIds /\ [][Next]_vars

(***************************************************************************)
(* Properties.                                                             *)
(***************************************************************************)
Hooks ==
    { "checkout_prepare", "payment_prepare", "shred_payment_info",
      "render_invoice_text" }

SummaryKeys == { "id_order", "amount", "description", "language", "status" }

\* C1: an execute_payment on a stored payment in state created that the
\* gateway answers with status 200 leaves the payment pending and writes it
\* exactly once.
C1_Status200PendingSavedOnce ==
    (last.op = "execute_payment" /\ last.pre = PAYMENT_STATE_CREATED /\ last.http = 200)
        => (db.state = PAYMENT_STATE_PENDING /\ last.saves = 1)

\* C2: an execute_payment on a stored payment in state created that the
\* gateway answers with a non-success status returns a failure value, does
\* not raise, and leaves the stored state created.
C2_NonSuccessLeavesCreated ==
    (last.op = "execute_payment" /\ last.pre = PAYMENT_STATE_CREATED
        /\ last.http \in {400, 500})
        => (last.result = "False" /\ db.state = PAYMENT_STATE_CREATED)

\* C3: an execute_payment with an empty gateway key, MB WAY key or amount
\* raises a configuration error (a payment exception to the host), issues no
\* gateway call and leaves the stored state as it was.
C3_ConfigurationGate ==
    (last.op = "execute_payment"
        /\ (settings.gateway_key = "" \/ settings.mb_way_key = "" \/ obj.amount = 0))
        => (/\ last.result \in {"ConfigurationError", "PaymentException"}
            /\ last.net = 0
            /\ db.state = last.pre)

\* C4: no operation of the provider moves the stored payment to confirmed;
\* the only change of state it makes is created -> pending after a gateway
\* answer of status 200.
C4_ProviderNeverConfirms ==
    (last.op \notin {"init", "load", "webhook"})
        => (/\ (db.state = PAYMENT_STATE_CONFIRMED => last.pre = PAYMENT_STATE_CONFIRMED)
            /\ (db.state # last.pre
                  => (/\ last.pre = PAYMENT_STATE_CREATED
                      /\ db.state = PAYMENT_STATE_PENDING
                      /\ last.http = 200)))

\* n = q * 10^15 + r for some q >= 0
DiffersByMultiple(n, r) ==
    LET pn == PadTo(n, 3)
    IN  \E k \in 0 .. Len(pn) : pn = SubSeq(pn, 1, k) \o PadTo(r, 3)

\* 0 <= r < 10^15, in normal form
InOrderIdRange(r) ==
    /\ Len(r) \in 1 .. 3
    /\ \A i \in 1 .. Len(r) : r[i] \in 0 .. LimbBase - 1
    /\ r = Normalize(r)

\* C5: the order id shown by payment_control_render and
\* payment_control_render_short is the local id modulo 10^15: it lies in
\* 0 .. 10^15 - 1, differs from the local id by a multiple of 10^15, and every
\* local id congruent to it modulo 10^15 gets the same order id.
C5_OrderIdIsLocalIdMod ==
    (last.op \in {"payment_control_render", "payment_control_render_short"})
        => (/\ InOrderIdRange(last.view.id_order)
            /\ DiffersByMultiple(obj.local_id, last.view.id_order)
            /\ \A m \in LocalIds :
                  DiffersByMultiple(m, last.view.id_order)
                    => payment_control_render_short([obj EXCEPT !.local_id = m]).view.id_order
                         = last.view.id_order)

C5_Witness ==
    /\ last.op = "payment_control_render_short"
    /\ Len(obj.local_id) > 3
    /\ last.view.id_order # obj.local_id

\* C6: is_allowed is false for every currency but EUR, equals the host's base
\* check for EUR, and changes nothing.
C6_IsAllowedOnlyEUR ==
    [][last'.op = "is_allowed"
         => (/\ currency # "EUR" => last'.result = "False"
             /\ currency = "EUR" => last'.result = last'.arg
             /\ UNCHANGED <<settings, currency, session, db, obj, gw, referenced,
                            logs_shredded>>)]_vars

C6_Witness ==
    /\ last.op = "is_allowed"
    /\ currency # "EUR"
    /\ last.arg = "True"
    /\ last.result = "False"

\* C7: refund_supported and partial_refund_supported answer false in every
\* payment state, and no operation issues a refund request to the gateway.
C7_NoRefunds ==
    /\ last.op \in {"refund_supported", "partial_refund_supported"}
         => last.result = "False"
    /\ last.refunds = 0

C7_Witness ==
    /\ last.op = "refund_supported"
    /\ db.state = PAYMENT_STATE_CONFIRMED
    /\ last.result = "False"

\* C8 as stated: both control views return the summary of order id, amount,
\* description, language and state.
C8_BothViewsAreSummaries ==
    (last.op \in {"payment_control_render", "payment_control_render_short"})
        => last.view.keys = SummaryKeys

\* C8: the control views change nothing; payment_control_render returns the
\* summary of order id, amount, description, language and current state,
\* payment_control_render_short returns the order id alone.
C8_ViewsAreDisplayOnly ==
    [][last'.op \in {"payment_control_render", "payment_control_render_short"}
         => (/\ UNCHANGED <<settings, currency, session, db, obj, gw, referenced,
                            logs_shredded>>
             /\ last'.op = "payment_control_render"
                  => (/\ last'.view.keys = SummaryKeys
                      /\ last'.view.status = obj.state
                      /\ last'.view.amount = format_price(obj.amount)
                      /\ last'.view.description = settings.description
                      /\ last'.view.language \in {"en", "pt"})
             /\ last'.op = "payment_control_render_short"
                  => last'.view.keys = {"id_order"})]_vars

C8_Witness ==
    /\ last.op = "payment_control_render"
    /\ db.state = PAYMENT_STATE_CONFIRMED
    /\ last.view.status = PAYMENT_STATE_CONFIRMED

\* C9: checkout_prepare, payment_prepare, shred_payment_info and
\* render_invoice_text do what the host's base implementation does and
\* nothing of their own: no gateway call, no write, the base result.
C9_HooksDelegate ==
    (last.op \in Hooks)
        => (/\ last.result = "base"
            /\ last.net = 0
            /\ last.saves = 0)

\* C10: an execute_payment that passes the session check issues exactly one
\* gateway call.
C10_OneGatewayCall ==
    (last.op = "execute_payment" /\ payment_is_valid_session(session))
        => last.net = 1

\* the gateway-side total or currency differs from the local amount or the
\* event currency (none of the four is ever changed by an operation)
ValueMismatch ==
    gw.total # str_decimal(obj.amount) \/ gw.currency # currency

\* C12: an execute_payment whose gateway-side transaction differs in total or
\* currency never calls the gateway's execute and leaves the stored state as
\* it was, and, once Payment.find has returned the transaction, raises
\* PaymentException; execute is called only when total and currency match.
C12_MismatchNeverExecutes ==
    (last.op = "execute_payment")
        => (/\ ValueMismatch
                 => (/\ last.execs = 0
                     /\ ~last.inner
                     /\ db.state = last.pre
                     /\ last.found => last.result = "PaymentException")
            /\ last.execs > 0 => ~ValueMismatch)

C12_Witness ==
    /\ last.op = "execute_payment"
    /\ last.found
    /\ gw.currency # currency
    /\ gw.total = str_decimal(obj.amount)
    /\ last.result = "PaymentException"
    /\ last.execs = 0

\* the last operation ran _execute_payment up to its mapping of the gateway
\* state (no unguarded gateway call raised on the way)
ReachedMapping ==
    last.op = "execute_payment" /\ last.inner /\ last.result # "ConnectionError"

\* C13 as stated: a normal return leaves the local payment pending or
\* confirmed, and whenever the gateway-side state after the execute step is
\* neither pending nor approved the payment is marked failed and
\* PaymentException is raised.
C13_FailsUnlessPendingOrApproved ==
    /\ (ReachedMapping /\ last.result = "None")
          => (/\ obj.state \in {PAYMENT_STATE_PENDING, PAYMENT_STATE_CONFIRMED}
              /\ db.state \in {PAYMENT_STATE_PENDING, PAYMENT_STATE_CONFIRMED})
    /\ (ReachedMapping /\ gw.state \notin {"pending", "approved"})
          => (db.state = PAYMENT_STATE_FAILED /\ last.result = "PaymentException")

\* C13: a normal return leaves the local payment pending or confirmed, and
\* whenever the gateway-side state after the execute step is neither pending
\* nor approved and no sale of the transaction is pending, the payment is
\* marked failed and PaymentException is raised.
C13_FailsUnlessPendingSaleOrState ==
    /\ (ReachedMapping /\ last.result = "None")
          => (/\ obj.state \in {PAYMENT_STATE_PENDING, PAYMENT_STATE_CONFIRMED}
              /\ db.state \in {PAYMENT_STATE_PENDING, PAYMENT_STATE_CONFIRMED})
    /\ (ReachedMapping /\ gw.state \notin {"pending", "approved"} /\ gw.sale # "pending")
          => (/\ db.state = PAYMENT_STATE_FAILED
              /\ obj.state = PAYMENT_STATE_FAILED
              /\ last.result = "PaymentException")

\* the execute call failed with a swallowed connection error and the payment
\* was marked failed
C13_Witness ==
    /\ ReachedMapping
    /\ last.http = 500
    /\ gw.state = "created"
    /\ db.state = PAYMENT_STATE_FAILED
    /\ last.result = "PaymentException"

C15_ExecuteOnlyWhenCreated ==
    (last.op = "execute_payment" /\ last.inner)
        => (/\ last.execs <= 1
            /\ last.execs = 1 => last.gw_pre = "created"
            /\ last.gw_pre # "created"
                  => (/\ last.execs = 0
                      /\ last.net = 1
                      /\ last.http = 0
                      /\ gw.state = last.gw_pre
                      /\ gw.sale = last.sale_pre))

C15_Witness ==
    /\ last.op = "execute_payment"
    /\ last.inner
    /\ last.gw_pre = "pending"
    /\ last.execs = 0
    /\ db.state = PAYMENT_STATE_PENDING

\* C11: nothing holds a request back because of the other one: in every
\* state each request that is about to call the gateway (find, replace,
\* execute) can do so, whatever the other request has already sent, so both
\* requests can send their execute request for the one transaction.
C11_NoGuardAcrossCalls ==
    \A p \in Procs :
        /\ calls[p].pc = "idle" => ENABLED CFind(p)
        /\ calls[p].pc = "replace" => ENABLED CReplace(p)
        /\ calls[p].pc = "execute" => ENABLED CExecute(p)

\* both requests are still running and both have sent their execute request
C11_Witness ==
    \A p \in Procs :
        /\ calls[p].pc = "map"
        /\ calls[p].execs = 1
        /\ calls[p].net = 3

====
